---- MODULE Spec2Model ----
(***************************************************************************)
(* Model of Debugger.h: the timing helpers (clocks, benchmark, getBench,   *)
(* endBench with its unit label) and the process CPU sampler (initCPU,     *)
(* getCPU and its callers getData, compareData, printDiag).                *)
(*                                                                         *)
(* The environment is the hardware time-stamp counter, the steady clock,   *)
(* the system time and the process's kernel/user CPU times.                *)
(***************************************************************************)
EXTENDS Integers, Sequences, FiniteSets, TLC

VARIABLES
    tsc,          \* the time-stamp counter that clocks() reads (unsigned, wraps)
    wraps,        \* history: how many times tsc has wrapped
    now,          \* std::chrono::steady_clock::now(), in ticks since its epoch
    ticks,        \* number of environment steps taken so far (bounded)
    Duration,     \* the template argument the caller instantiates benchmark and endBench with
    marks,        \* the timers getBench has returned, in capture order
    markWraps,    \* history: value of wraps when each mark was captured
    cout,         \* the last line endBench wrote, or NoLine
    endCall,      \* history: the argument and the two reads of that endBench call
    pc,           \* where the current benchmark() call stands
    beg,          \* benchmark's local `beg`
    ran,          \* history: steady time that passed while the callable ran
    events,       \* history: what the current benchmark() call has done, in order
    ret,          \* value benchmark returned, or NoValue
    caught,       \* exception the caller of benchmark observed, or None
    endNow,       \* history: the clock value read on line 59
    cpus,         \* sysInfo.dwNumberOfProcessors of the machine
    sysTime,      \* GetSystemTimeAsFileTime: the system time, which can be set
    procSys,      \* kernel time of the process, from GetProcessTimes
    procUser,     \* user time of the process, from GetProcessTimes
    self,         \* static HANDLE self
    numProcessors,\* static int numProcessors
    lastCPU,      \* static ULARGE_INTEGER lastCPU
    lastSysCPU,   \* static ULARGE_INTEGER lastSysCPU
    lastUserCPU,  \* static ULARGE_INTEGER lastUserCPU
    sample,       \* history: the last getCPU call (what it read, found and returned), or NoSample
    reading       \* history: the times read by the last initCPU or getCPU call

envVars   == <<tsc, wraps, now, ticks, Duration>>
markVars  == <<marks, markWraps, cout, endCall>>
benchVars == <<pc, beg, ran, events, ret, caught, endNow>>
timeVars  == <<envVars, markVars, benchVars>>
cpuEnv    == <<cpus, sysTime, procSys, procUser>>
cpuVars   == <<self, numProcessors, lastCPU, lastSysCPU, lastUserCPU, sample, reading>>
vars      == <<timeVars, cpuEnv, cpuVars>>

\* No exception observed.
None == "none"

(***************************************************************************)
(* Bounds of the model.                                                    *)
(***************************************************************************)
\* uint64_t (and ULARGE_INTEGER.QuadPart) is modelled with WordBits bits:
\* arithmetic on it is modulo 2^WordBits.
WordBits == 10
\* Largest number of cycles the counter advances in one environment step.
MaxCycleStep == 2
\* Number of environment steps (clock or counter advancing) in a behaviour.
MaxTicks == 2
\* Number of marks a caller keeps.
MaxMarks == 2
\* Number of processors of the machine.
MaxProcessors == 2
\* Latest system time, in FILETIME units.
MaxSysTime == 3
\* Most CPU time the process consumes, in FILETIME units.  As on the real
\* machine, 100 times this stays below 2^WordBits.
MaxCpuTime == 4

(***************************************************************************)
(* 64-bit duration counts.  A count of steady-clock ticks over an hour     *)
(* exceeds what TLC's integers hold, so a count (Duration::rep) is *)
(* a sequence of base-1000 digits, least significant first.                *)
(***************************************************************************)
RepBase == 10^3
Zero == <<0, 0, 0, 0, 0>>

\* The count n (an ordinary integer below RepBase^3) as a rep.
ToRep(n) == <<n % RepBase, (n \div RepBase) % RepBase,
              (n \div (RepBase * RepBase)) % RepBase, 0, 0>>

RECURSIVE AddFrom(_, _, _, _)
AddFrom(a, b, i, carry) ==
    IF i > Len(a) THEN <<>>
    ELSE LET s == a[i] + b[i] + carry
         IN  <<s % RepBase>> \o AddFrom(a, b, i + 1, s \div RepBase)
\* a + b
AddRep(a, b) == AddFrom(a, b, 1, 0)

RECURSIVE SubFrom(_, _, _, _)
SubFrom(a, b, i, borrow) ==
    IF i > Len(a) THEN <<>>
    ELSE LET s == a[i] - b[i] - borrow
         IN  IF s < 0 THEN <<s + RepBase>> \o SubFrom(a, b, i + 1, 1)
                      ELSE <<s>> \o SubFrom(a, b, i + 1, 0)
\* a - b, for a >= b (time_point - time_point of a steady clock)
SubRep(a, b) == SubFrom(a, b, 1, 0)

RECURSIVE LessFrom(_, _, _)
LessFrom(a, b, i) ==
    IF i = 0 THEN FALSE
    ELSE IF a[i] # b[i] THEN a[i] < b[i]
    ELSE LessFrom(a, b, i - 1)
\* a < b
LessRep(a, b) == LessFrom(a, b, Len(a))
\* a <= b
LeqRep(a, b) == ~LessRep(b, a)

\* Integer division of a by f truncates: digit by digit from the top, the
\* remainder carried down.  Needs f * RepBase within TLC's integers.
RECURSIVE ShortDivFrom(_, _, _, _)
ShortDivFrom(a, f, i, rem) ==
    IF i = 0 THEN <<>>
    ELSE LET cur == rem * RepBase + a[i]
         IN  ShortDivFrom(a, f, i - 1, cur % f) \o <<cur \div f>>
ShortDiv(a, f) == ShortDivFrom(a, f, Len(a), 0)

\* a / f for f a small number or a small number times a power of RepBase.
RECURSIVE DivRep(_, _)
DivRep(a, f) ==
    IF f > RepBase /\ f % RepBase = 0
    THEN DivRep(Tail(a) \o <<0>>, f \div RepBase)
    ELSE ShortDiv(a, f)

\* a * f, digit by digit from the bottom.  Needs f * RepBase within TLC's
\* integers.
RECURSIVE ShortMulFrom(_, _, _, _)
ShortMulFrom(a, f, i, carry) ==
    IF i > Len(a) THEN <<>>
    ELSE LET cur == a[i] * f + carry
         IN  <<cur % RepBase>> \o ShortMulFrom(a, f, i + 1, cur \div RepBase)
ShortMul(a, f) == ShortMulFrom(a, f, 1, 0)

\* a * f for f a small number or a small number times a power of RepBase.
RECURSIVE MulRep(_, _)
MulRep(a, f) ==
    IF f > RepBase /\ f % RepBase = 0
    THEN MulRep(<<0>> \o SubSeq(a, 1, Len(a) - 1), f \div RepBase)
    ELSE ShortMul(a, f)

(***************************************************************************)
(* Timing: clocks, the std::chrono duration types, duration_cast.          *)
(***************************************************************************)
Modulus == 2^WordBits

\* Sub64 with a fault: the difference taken as a signed number.
Sub64_signed(a, b) == a - b
\* Sub64 with a fault: a difference that stops at zero instead of wrapping.
Sub64_saturating(a, b) == IF a >= b THEN a - b ELSE 0

\* uint64_t arithmetic
Sub64(a, b) == (a - b) % Modulus
Add64(a, b) == (a + b) % Modulus
Mul64(a, b) == (a * b) % Modulus

\* uint64_t clocks() { return __rdtsc(); }
clocks == tsc

\* The six std::chrono duration types, as the compiler names them: the
\* representation type and the period std::ratio<num, den> in seconds.
nanoseconds  == [rep |-> "__int64", num |-> 1,    den |-> 1000000000]
microseconds == [rep |-> "__int64", num |-> 1,    den |-> 1000000]
milliseconds == [rep |-> "__int64", num |-> 1,    den |-> 1000]
seconds      == [rep |-> "__int64", num |-> 1,    den |-> 1]
minutes      == [rep |-> "int",     num |-> 60,   den |-> 1]
hours        == [rep |-> "int",     num |-> 3600, den |-> 1]
Durations == {nanoseconds, microseconds, milliseconds, seconds, minutes, hours}

\* Ticks per second of steady_clock (and of high_resolution_clock, the same
\* clock wherever line 57 compiles): its period is std::nano.
steady_clock_period == 1000000000

\* typeid(TR).name() for a std::chrono::duration specialisation.
typeid_name(T) ==
    "class std::chrono::duration<" \o T.rep \o ",struct std::ratio<"
        \o ToString(T.num) \o "," \o ToString(T.den) \o "> >"

\* type_name<T>(): `own` is nullptr under _MSC_VER, so r is typeid(TR).name();
\* a duration type is neither cv-qualified nor a reference, so nothing is appended.
type_name(T) == typeid_name(T)

\* unit_label with a fault: the labels of the first two comparisons exchanged.
unit_label_swapped(T) ==
    LET type == type_name(T)
    IN  IF type = "class std::chrono::duration<__int64,struct std::ratio<1,1000> >"
        THEN "nanoseconds"
        ELSE IF type = "class std::chrono::duration<__int64,struct std::ratio<1,1000000000> >"
        THEN "milliseconds"
        ELSE IF type = "class std::chrono::duration<__int64,struct std::ratio<1,1> >"
        THEN "seconds"
        ELSE IF type = "class std::chrono::duration<__int64,struct std::ratio<1,1000000> >"
        THEN "microseconds"
        ELSE IF type = "class std::chrono::duration<int,struct std::ratio<60,1> >"
        THEN "minutes"
        ELSE IF type = "class std::chrono::duration<int,struct std::ratio<3600,1> >"
        THEN "hours"
        ELSE type

\* Lines 67-73 of endBench: the label printed for Duration.
unit_label(T) ==
    LET type == type_name(T)
    IN  IF type = "class std::chrono::duration<__int64,struct std::ratio<1,1000> >"
        THEN "milliseconds"
        ELSE IF type = "class std::chrono::duration<__int64,struct std::ratio<1,1000000000> >"
        THEN "nanoseconds"
        ELSE IF type = "class std::chrono::duration<__int64,struct std::ratio<1,1> >"
        THEN "seconds"
        ELSE IF type = "class std::chrono::duration<__int64,struct std::ratio<1,1000000> >"
        THEN "microseconds"
        ELSE IF type = "class std::chrono::duration<int,struct std::ratio<60,1> >"
        THEN "minutes"
        ELSE IF type = "class std::chrono::duration<int,struct std::ratio<3600,1> >"
        THEN "hours"
        ELSE type

\* Steady-clock ticks in one unit of T.
UnitTicks(T) == MulRep(MulRep(ToRep(1), steady_clock_period \div T.den), T.num)

\* duration_cast with a fault: the quotient rounded to the nearest count
\* (half a unit is added before the division).
duration_cast_rounded(d, To) ==
    DivRep(DivRep(AddRep(d, ShortDiv(UnitTicks(To), 2)),
                  steady_clock_period \div To.den), To.num)

\* std::chrono::duration_cast<To>(d).count() for d in steady-clock ticks: the
\* count divided by (steady_clock_period / To.den) * To.num with C++ integer
\* division.  The divisor exceeds TLC's integers for minutes and
\* hours, so the two factors are divided out one after the other.
duration_cast(d, To) == DivRep(DivRep(d, steady_clock_period \div To.den), To.num)

\* What the steady clock may advance by in one environment step: one tick,
\* one whole unit of the duration type in use, or one tick less than that.
ClockSteps(T) ==
    {ToRep(1), UnitTicks(T), SubRep(UnitTicks(T), ToRep(1))} \ {Zero}

\* What a callable may throw.
Exceptions == {"std::bad_alloc", "std::runtime_error"}

NoTimer == [first |-> 0, second |-> Zero]
\* benchmark has returned nothing.
NoValue == <<>>
\* endBench has written nothing.
NoLine == [cycles |-> 0, type |-> "", count |-> Zero]
NoCall == [start |-> NoTimer, clocks |-> 0, now |-> Zero]

(***************************************************************************)
(* The environment of the timing helpers: time passes.                     *)
(***************************************************************************)
\* The steady clock advances by d; the time counts as run time of the
\* callable when benchmark's callable is executing.
TickClock(d) ==
    /\ ticks < MaxTicks
    /\ ticks' = ticks + 1
    /\ now' = AddRep(now, d)
    /\ ran' = IF pc = "running" THEN AddRep(ran, d) ELSE ran
    /\ UNCHANGED <<tsc, wraps, Duration, markVars, pc, beg, events, ret, caught, endNow,
                   cpuEnv, cpuVars>>

\* The time-stamp counter advances by c cycles, wrapping at 2^64.
TickCycles(c) ==
    /\ ticks < MaxTicks
    /\ ticks' = ticks + 1
    /\ tsc' = Add64(tsc, c)
    /\ wraps' = IF tsc + c >= Modulus THEN wraps + 1 ELSE wraps
    /\ UNCHANGED <<now, Duration, markVars, benchVars, cpuEnv, cpuVars>>

(***************************************************************************)
(* benchmark<Duration>(fun, args...), lines 56-60.                         *)
(***************************************************************************)
\* benchmark_begin with a fault: the callable is never called.
benchmark_begin_skipping ==
    /\ pc = "idle"
    /\ pc' = "returned"
    /\ beg' = [first |-> clocks, second |-> now]
    /\ events' = <<"beg">>
    /\ UNCHANGED <<envVars, markVars, ran, ret, caught, endNow, cpuEnv, cpuVars>>

\* Line 57: const timer beg = { clocks(), high_resolution_clock::now() };
benchmark_begin ==
    /\ pc = "idle"
    /\ pc' = "begun"
    /\ beg' = [first |-> clocks, second |-> now]
    /\ events' = <<"beg">>
    /\ UNCHANGED <<envVars, markVars, ran, ret, caught, endNow, cpuEnv, cpuVars>>

\* Line 58: the callable is called.
benchmark_invoke ==
    /\ pc = "begun"
    /\ pc' = "running"
    /\ events' = Append(events, "fun")
    /\ UNCHANGED <<envVars, markVars, beg, ran, ret, caught, endNow, cpuEnv, cpuVars>>

\* fun_return with a fault: the start instant is taken when the callable is back.
fun_return_restarting ==
    /\ pc = "running"
    /\ pc' = "returned"
    /\ beg' = [first |-> clocks, second |-> now]
    /\ events' = Append(events, "return")
    /\ UNCHANGED <<envVars, markVars, ran, ret, caught, endNow, cpuEnv, cpuVars>>

\* Line 58: the callable returns.
fun_return ==
    /\ pc = "running"
    /\ pc' = "returned"
    /\ events' = Append(events, "return")
    /\ UNCHANGED <<envVars, markVars, beg, ran, ret, caught, endNow, cpuEnv, cpuVars>>

\* fun_throw with a fault: benchmark catches the exception and goes on to line 59.
fun_throw_swallowed(e) ==
    /\ pc = "running"
    /\ pc' = "returned"
    /\ events' = Append(events, e)
    /\ UNCHANGED <<envVars, markVars, beg, ran, ret, caught, endNow, cpuEnv, cpuVars>>

\* Line 58: the callable throws e.  benchmark has no handler and beg needs no
\* clean-up: the exception leaves benchmark and reaches its caller.
fun_throw(e) ==
    /\ pc = "running"
    /\ pc' = "raised"
    /\ events' = Append(events, e)
    /\ caught' = e
    /\ UNCHANGED <<envVars, markVars, beg, ran, ret, endNow, cpuEnv, cpuVars>>

\* Line 59: return duration_cast<Duration>(high_resolution_clock::now() - beg.second).count();
benchmark_end ==
    /\ pc = "returned"
    /\ pc' = "done"
    /\ endNow' = now
    /\ ret' = duration_cast(SubRep(now, beg.second), Duration)
    /\ events' = Append(events, "now")
    /\ UNCHANGED <<envVars, markVars, beg, ran, caught, cpuEnv, cpuVars>>

\* The caller of benchmark goes on, with the value or with the exception;
\* the call's frame is gone.
benchmark_caller ==
    /\ pc \in {"done", "raised"}
    /\ pc' = "idle"
    /\ beg' = NoTimer
    /\ ran' = Zero
    /\ events' = <<>>
    /\ ret' = NoValue
    /\ caught' = None
    /\ endNow' = Zero
    /\ UNCHANGED <<envVars, markVars, cpuEnv, cpuVars>>

(***************************************************************************)
(* getBench and endBench<Duration>, lines 63-75.                           *)
(***************************************************************************)
\* inline timer getBench() { return { clocks(), steady_clock::now() }; }
getBench ==
    /\ pc = "idle"
    /\ Len(marks) < MaxMarks
    /\ marks' = Append(marks, [first |-> clocks, second |-> now])
    /\ markWraps' = Append(markWraps, wraps)
    /\ UNCHANGED <<envVars, cout, endCall, benchVars, cpuEnv, cpuVars>>

\* endBench<Duration>(start): line 74 writes the cycles since start.first, the
\* label and the time since start.second in units of Duration.
endBench(start) ==
    /\ pc = "idle"
    /\ cout' = [cycles |-> Sub64(clocks, start.first),
                type   |-> unit_label(Duration),
                count  |-> duration_cast(SubRep(now, start.second), Duration)]
    /\ endCall' = [start |-> start, clocks |-> tsc, now |-> now]
    /\ UNCHANGED <<envVars, marks, markWraps, benchVars, cpuEnv, cpuVars>>

(***************************************************************************)
(* The CPU sampler, lines 94-173.  A double is a fraction num/den.         *)
(***************************************************************************)
\* cpu_percent with a fault: zero, not a negative value, when there is no interval.
cpu_percent_zero(nowTime, sys, user) ==
    IF numProcessors > 0 /\ Sub64(nowTime, lastCPU) # 0
    THEN [num |-> Mul64(((Add64(Sub64(sys, lastSysCPU), Sub64(user, lastUserCPU))
                            \div Sub64(nowTime, lastCPU)) \div numProcessors), 100),
          den |-> 1]
    ELSE [num |-> 0, den |-> 1]

\* cpu_percent with a fault: multiplied by 100 before the divisions.
cpu_percent_scaled_first(nowTime, sys, user) ==
    IF numProcessors > 0 /\ Sub64(nowTime, lastCPU) # 0
    THEN [num |-> (Mul64(Add64(Sub64(sys, lastSysCPU), Sub64(user, lastUserCPU)), 100)
                      \div Sub64(nowTime, lastCPU)) \div numProcessors,
          den |-> 1]
    ELSE [num |-> -1, den |-> 10]

\* Line 130: the value of `percent`.  The quotient is formed in unsigned
\* 64-bit arithmetic and only then converted to double; -0.1 otherwise.
cpu_percent(nowTime, sys, user) ==
    IF numProcessors > 0 /\ Sub64(nowTime, lastCPU) # 0
    THEN [num |-> Mul64(((Add64(Sub64(sys, lastSysCPU), Sub64(user, lastUserCPU))
                            \div Sub64(nowTime, lastCPU)) \div numProcessors), 100),
          den |-> 1]
    ELSE [num |-> -1, den |-> 10]

\* getCPU has not been called since the statics were last initialised.
NoSample ==
    [via |-> "", now |-> 0, sys |-> 0, user |-> 0,
     found |-> [now |-> 0, sys |-> 0, user |-> 0],
     prior |-> [now |-> 0, sys |-> 0, user |-> 0],
     processors |-> 0, percent |-> [num |-> 0, den |-> 1]]

\* What an uninitialised FILETIME local may hold.
Garbage == {0, Modulus - 1}

\* GetProcessTimes(self, ...): the kernel and user times of the process.  With
\* self still NULL the call fails and fsys, fuser keep whatever they held.
ProcessTimes ==
    IF self = "NULL" THEN Garbage \X Garbage ELSE {<<procSys, procUser>>}

\* getCPU_call with a fault: the statics are left alone when -0.1 is returned.
getCPU_call_returning_early(via, sys, user) ==
    LET p == cpu_percent(sysTime, sys, user)
    IN  /\ sample' = [via |-> via, now |-> sysTime, sys |-> sys, user |-> user,
                      found |-> [now |-> lastCPU, sys |-> lastSysCPU, user |-> lastUserCPU],
                      prior |-> reading, processors |-> numProcessors, percent |-> p]
        /\ reading' = [now |-> sysTime, sys |-> sys, user |-> user]
        /\ IF p.num < 0
           THEN UNCHANGED <<lastCPU, lastSysCPU, lastUserCPU>>
           ELSE lastCPU' = sysTime /\ lastUserCPU' = user /\ lastSysCPU' = sys
        /\ UNCHANGED <<self, numProcessors, cpuEnv, timeVars>>

\* The body of getCPU, lines 121-135, called from `via`, with sys and user
\* the times GetProcessTimes gave.
getCPU_call(via, sys, user) ==
    /\ sample' = [via |-> via, now |-> sysTime, sys |-> sys, user |-> user,
                  found |-> [now |-> lastCPU, sys |-> lastSysCPU, user |-> lastUserCPU],
                  prior |-> reading, processors |-> numProcessors,
                  percent |-> cpu_percent(sysTime, sys, user)]
    /\ reading' = [now |-> sysTime, sys |-> sys, user |-> user]
    /\ lastCPU' = sysTime
    /\ lastUserCPU' = user
    /\ lastSysCPU' = sys
    /\ UNCHANGED <<self, numProcessors, cpuEnv, timeVars>>

\* void initCPU(), lines 100-118.
initCPU ==
    /\ numProcessors' = cpus
    /\ lastCPU' = sysTime
    /\ self' = "GetCurrentProcess"
    /\ lastSysCPU' = procSys
    /\ lastUserCPU' = procUser
    /\ reading' = [now |-> sysTime, sys |-> procSys, user |-> procUser]
    /\ sample' = NoSample
    /\ UNCHANGED <<cpuEnv, timeVars>>

\* double getCPU()
getCPU == \E t \in ProcessTimes : getCPU_call("getCPU", t[1], t[2])

\* memory getData(): its last member is getCPU().
getData == \E t \in ProcessTimes : getCPU_call("getData", t[1], t[2])

\* void compareData(memory pastData): calls getData().
compareData == \E t \in ProcessTimes : getCPU_call("compareData", t[1], t[2])

\* void printDiag(): calls getCPU() when the PDH counter value is positive.
printDiag ==
    \E counterVal \in {0, 1}, t \in ProcessTimes :
        IF counterVal > 0
        THEN getCPU_call("printDiag", t[1], t[2])
        ELSE UNCHANGED vars

\* The system time moves: it passes, or the clock is set (possibly back).
SystemTime(t) ==
    /\ t # sysTime
    /\ sysTime' = t
    /\ UNCHANGED <<cpus, procSys, procUser, cpuVars, timeVars>>

\* The process runs: it consumes k units of kernel time and u of user time.
ProcessRuns(k, u) ==
    /\ k + u > 0
    /\ procSys + procUser + k + u <= MaxCpuTime
    /\ procSys' = procSys + k
    /\ procUser' = procUser + u
    /\ UNCHANGED <<cpus, sysTime, cpuVars, timeVars>>

(***************************************************************************)
(* Specifications.                                                         *)
(***************************************************************************)
\* The timing helpers before any call: the counter just reset or about to wrap.
TimingInit ==
    /\ tsc \in {0, Modulus - 1}
    /\ wraps = 0
    /\ now = Zero
    /\ ticks = 0
    /\ Duration \in Durations
    /\ marks = <<>>
    /\ markWraps = <<>>
    /\ cout = NoLine
    /\ endCall = NoCall
    /\ pc = "idle"
    /\ beg = NoTimer
    /\ ran = Zero
    /\ events = <<>>
    /\ ret = NoValue
    /\ caught = None
    /\ endNow = Zero

\* The statics of lines 94-98 are zero-initialised.
SamplerInit ==
    /\ cpus \in 1 .. MaxProcessors
    /\ sysTime = 1
    /\ procSys = 0
    /\ procUser = 0
    /\ self = "NULL"
    /\ numProcessors = 0
    /\ lastCPU = 0
    /\ lastSysCPU = 0
    /\ lastUserCPU = 0
    /\ sample = NoSample
    /\ reading = [now |-> 0, sys |-> 0, user |-> 0]

Init == TimingInit /\ SamplerInit /\ cpus = 1

BenchmarkNext ==
    \/ benchmark_begin
    \/ benchmark_invoke
    \/ fun_return
    \/ \E e \in Exceptions : fun_throw(e)
    \/ benchmark_end
    \/ benchmark_caller

MarkNext ==
    \/ getBench
    \/ \E i \in 1 .. Len(marks) : endBench(marks[i])

\* benchmark, getBench and endBench as the steady clock advances.
Next ==
    \/ \E d \in ClockSteps(Duration) : TickClock(d)
    \/ BenchmarkNext
    \/ MarkNext

Spec == Init /\ [][Next]_vars

\* getBench and endBench as the steady clock and the cycle counter advance.
NextCycles ==
    \/ \E d \in ClockSteps(Duration) : TickClock(d)
    \/ \E c \in 1 .. MaxCycleStep : TickCycles(c)
    \/ MarkNext

SpecCycles == Init /\ [][NextCycles]_vars

\* The CPU sampler.
InitSampler == TimingInit /\ SamplerInit /\ tsc = 0 /\ Duration = microseconds

NextSampler ==
    \/ \E t \in 1 .. MaxSysTime : SystemTime(t)
    \/ \E k, u \in 0 .. 1 : ProcessRuns(k, u)
    \/ initCPU
    \/ getCPU
    \/ getData
    \/ compareData
    \/ printDiag

SpecCPU == InitSampler /\ [][NextSampler]_vars

(***************************************************************************)
(* The claims.                                                             *)
(***************************************************************************)
Normal == <<"beg", "fun", "return", "now">>
Thrown == {i \in DOMAIN events : events[i] \in Exceptions}

\* C1: a benchmark call whose callable returns normally has called it exactly
\* once, after the start mark was taken and before the end clock read that
\* gives the returned value; at no point has it been called twice.
C1_CalledExactlyOnce ==
    /\ pc = "done" => events = Normal /\ ret # NoValue
    /\ Thrown = {} => events = SubSeq(Normal, 1, Len(events))
    /\ Cardinality({i \in DOMAIN events : events[i] = "fun"}) <= 1

C1_Witness == pc = "done" /\ events = Normal /\ ret # NoValue

\* C2: when the callable throws, the caller of benchmark observes that same
\* exception, the callable was called once and is not called again, and
\* benchmark neither reads the end clock nor returns a value.
C2_FailurePropagates ==
    \A i \in Thrown :
        /\ pc = "raised"
        /\ caught = events[i]
        /\ events = <<"beg", "fun", events[i]>>
        /\ ret = NoValue

C2_Witness == pc = "raised" /\ caught = "std::runtime_error" /\ ret = NoValue

\* C3 as claimed: of two marks captured one after the other, the later has
\* the cycle count and the timestamp that are not smaller.
C3_Original ==
    \A i, j \in DOMAIN marks :
        i < j => /\ marks[j].first >= marks[i].first
                 /\ LeqRep(marks[i].second, marks[j].second)

\* C3 as amended: the later mark's timestamp is never smaller; its cycle count
\* is not smaller unless the counter wrapped between the two captures; and
\* endBench on a captured mark reports cycles >= 0 and a wall time >= 0.
C3_Monotonic ==
    /\ \A i, j \in DOMAIN marks :
        i < j => /\ LeqRep(marks[i].second, marks[j].second)
                 /\ markWraps[i] = markWraps[j] => marks[j].first >= marks[i].first
    /\ cout # NoLine => /\ cout.cycles >= 0
                      /\ LeqRep(endCall.start.second, endCall.now)
                      /\ LeqRep(Zero, cout.count)

C3_Witness ==
    /\ Len(marks) = 2
    /\ marks[1].first < marks[2].first
    /\ LessRep(marks[1].second, marks[2].second)
    /\ cout # NoLine

\* C4: the cycles endBench reports are the counter read minus the mark's
\* cycle count modulo 2^64: when the counter read is below the mark's count
\* the wrapped value is reported, as an ordinary line.
C4_WrappedCycles ==
    cout # NoLine =>
        /\ cout.cycles \in 0 .. Modulus - 1
        /\ cout.cycles = IF endCall.clocks >= endCall.start.first
                         THEN endCall.clocks - endCall.start.first
                         ELSE Modulus - (endCall.start.first - endCall.clocks)

C4_Witness == cout # NoLine /\ endCall.clocks < endCall.start.first /\ cout.cycles > 0

\* k units of T, in steady-clock ticks.
Times(k, T) == MulRep(MulRep(k, steady_clock_period \div T.den), T.num)
\* k is d / (one unit of T) with the remainder dropped.
IsTruncated(k, d, T) ==
    /\ LeqRep(Times(k, T), d)
    /\ LessRep(d, Times(AddRep(k, ToRep(1)), T))

\* C5: the wall time benchmark returns and endBench reports is the elapsed
\* interval divided by the unit, the remainder dropped: k whole units and a
\* remainder below one unit give k.
C5_Truncates ==
    /\ pc = "done" => IsTruncated(ret, SubRep(endNow, beg.second), Duration)
    /\ cout # NoLine =>
           IsTruncated(cout.count, SubRep(endCall.now, endCall.start.second), Duration)

\* endBench reported 1 for an interval one tick short of two hours, and a
\* benchmark call has returned as well.
C5_Witness ==
    /\ Duration = hours
    /\ cout # NoLine
    /\ cout.count = ToRep(1)
    /\ AddRep(SubRep(endCall.now, endCall.start.second), ToRep(1)) = Times(ToRep(2), hours)
    /\ pc = "done"

\* C6: the value benchmark returns is not below the number of whole units the
\* callable ran for, and is not negative.
C6_NotBelowRunTime ==
    pc = "done" => /\ LessRep(ran, Times(AddRep(ret, ToRep(1)), Duration))
                   /\ LeqRep(Zero, ret)

C6_Witness ==
    /\ pc = "done"
    /\ Duration = milliseconds
    /\ LeqRep(UnitTicks(milliseconds), ran)
    /\ LeqRep(ToRep(1), ret)

\* The label each unit is to get.
UnitName(T) ==
    CASE T = nanoseconds  -> "nanoseconds"
      [] T = microseconds -> "microseconds"
      [] T = milliseconds -> "milliseconds"
      [] T = seconds      -> "seconds"
      [] T = minutes      -> "minutes"
      [] T = hours        -> "hours"

Negative(p) == p.num < 0

\* C8 as claimed: getCPU's result is negative exactly when the system time it
\* read equals the stored last-sample time.
C8_Original ==
    sample # NoSample => (Negative(sample.percent) <=> sample.now = sample.found.now)

\* C8 as amended: getCPU's result is negative (it is -0.1) exactly when the
\* system time it read equals the stored last-sample time or numProcessors is
\* not positive, as it is until initCPU has run; otherwise it is >= 0.
C8_Sentinel ==
    sample # NoSample =>
        /\ Negative(sample.percent) <=>
               (sample.now = sample.found.now \/ sample.processors <= 0)
        /\ Negative(sample.percent) => sample.percent = [num |-> -1, den |-> 10]
        /\ ~Negative(sample.percent) => sample.percent.num >= 0 /\ sample.percent.den > 0

C8_Witness ==
    /\ sample # NoSample
    /\ sample.processors > 0
    /\ sample.now = sample.found.now
    /\ sample.percent = [num |-> -1, den |-> 10]

\* C9: every getCPU call, whatever it returns and whoever calls it, leaves in
\* lastCPU, lastSysCPU and lastUserCPU the times it read, and found there the
\* times read by the call of getCPU or initCPU just before it.
C9_Overwrites ==
    sample # NoSample =>
        /\ lastCPU = sample.now
        /\ lastSysCPU = sample.sys
        /\ lastUserCPU = sample.user
        /\ sample.found = sample.prior

\* A call from printDiag that returned -0.1 after initCPU and replaced a
\* stored process time by a later one.
C9_Witness ==
    /\ sample # NoSample
    /\ sample.via = "printDiag"
    /\ sample.processors > 0
    /\ Negative(sample.percent)
    /\ sample.sys # sample.found.sys
    /\ lastSysCPU = sample.sys

\* C10: a result that is not the sentinel is 100 times the whole number of
\* times that wallDelta * numProcessors fits into sysDelta + userDelta (the
\* deltas unsigned): a multiple of 100, and 0 when the CPU time consumed is
\* below wallDelta * numProcessors.
C10_WholeMultiple ==
    sample # NoSample /\ ~Negative(sample.percent) =>
        LET cpu  == Add64(Sub64(sample.sys, sample.found.sys),
                          Sub64(sample.user, sample.found.user))
            wall == Sub64(sample.now, sample.found.now)
            n    == sample.processors
            q    == sample.percent.num \div 100
        IN  /\ sample.percent.den = 1
            /\ sample.percent.num = 100 * q
            /\ q >= 0
            /\ q * n * wall <= cpu
            /\ cpu < (q + 1) * n * wall
            /\ cpu < wall * n => sample.percent.num = 0

\* 3 units of CPU time over 2 units of wall time on one processor: 100.
C10_Witness ==
    /\ sample # NoSample
    /\ sample.processors = 1
    /\ Sub64(sample.now, sample.found.now) = 2
    /\ Sub64(sample.sys, sample.found.sys) + Sub64(sample.user, sample.found.user) = 3
    /\ sample.percent = [num |-> 100, den |-> 1]

====
